---- MODULE Spec2Model ----
(***************************************************************************)
(* World Bank dashboard (src/dashboard.py, the live script at lines        *)
(* 203-312): load the indicator table from the pickle cache or the API,    *)
(* normalise it, and serve two linked charts whose click events filter     *)
(* the table.                                                              *)
(***************************************************************************)
EXTENDS Integers, Sequences, FiniteSets, TLC

VARIABLES
    upstream,       \* the table the World Bank API returns now
    cache,          \* the file wbdata_cache.pkl
    tieOrder,       \* how this build's default sort kind orders equal keys
    pc,             \* "down", "serving" or "aborted"
    fetched,        \* the last startup's API call: "no", "ok" or "failed"
    df,             \* the module-level normalised table
    coldDf,         \* history: the df of the cold start that wrote the cache
    click_scatter,  \* clickData of gdp-life-scatter
    click_bar,      \* clickData of water-access-bar
    lastTrigger,    \* history: the chart whose click started the last cycle
    selected,       \* update_figures' local of the last cycle
    dff,            \* update_figures' local of the last cycle
    fig1,           \* figure of gdp-life-scatter
    fig2,           \* figure of water-access-bar
    initial         \* history: the figures of the last page load

vars == <<upstream, cache, tieOrder, pc, fetched, df, coldDf,
          click_scatter, click_bar, lastTrigger, selected, dff, fig1, fig2,
          initial>>

-----------------------------------------------------------------------------
(* Bounds of the model *)

MaxCountries == 2

MaxPoints == 2

(* Program constants *)

start_year == 2000

end_year == 2020

TopN == 15

NaN == -1

GDP_CODE == "NY.GDP.PCAP.CD"

LIFE_CODE == "SP.DYN.LE00.IN"

WATER_CODE == "SH.H2O.SMDW.ZS"

GDP == "GDP per capita (current US$)"

LIFE == "Life expectancy at birth (years)"

WATER == "Access to clean water (% pop)"

indicators == (GDP_CODE :> GDP) @@ (LIFE_CODE :> LIFE) @@ (WATER_CODE :> WATER)

-----------------------------------------------------------------------------
(* Helpers *)

Min(a, b) == IF a <= b THEN a ELSE b

Range(s) == {s[i] : i \in DOMAIN s}

\* the elements of the index set I in increasing order
RECURSIVE Ascending(_)
Ascending(I) ==
    IF I = {} THEN <<>>
    ELSE LET m == CHOOSE x \in I : \A y \in I : x <= y
         IN  <<m>> \o Ascending(I \ {m})

\* the rows of s at the indices I, in the order of s
Take(s, I) == LET idx == Ascending(I) IN [k \in 1..Len(idx) |-> s[idx[k]]]

-----------------------------------------------------------------------------
(* Upstream data: what wbdata.get_dataframe can return *)

AllCountries ==
    << [id |-> "BR", value |-> "Brazil"],
       [id |-> "KE", value |-> "Kenya"],
       [id |-> "US", value |-> "United States"],
       [id |-> "IN", value |-> "India"] >>

WaterVals == {NaN, 50, 90}

Shapes == {"structured", "flat"}

ModelYears == <<end_year, start_year>>

DigitChars == <<"0", "1", "2", "3", "4", "5", "6", "7", "8", "9">>

\* the date label of a year, as the API's index carries it
DigitChar(y, p) == DigitChars[((y \div p) % 10) + 1]

DateString(y) == << DigitChar(y, 1000), DigitChar(y, 100), DigitChar(y, 10), DigitChar(y, 1) >>

CountryCell(i, shape) ==
    IF shape = "structured"
    THEN [type |-> "dict", id |-> AllCountries[i].id, value |-> AllCountries[i].value]
    ELSE [type |-> "str", str |-> AllCountries[i].value]

ColumnName(code, shape) == IF shape = "structured" THEN code ELSE indicators[code]

\* one row of the indexed raw table: the (country, date) key and the cells
RawRow(i, y, w, shape) ==
    [ key   |-> <<CountryCell(i, shape), DateString(y)>>,
      cells |-> (ColumnName(GDP_CODE, shape) :> 1000 * i + (y - start_year))
             @@ (ColumnName(LIFE_CODE, shape) :> 60 + i)
             @@ (ColumnName(WATER_CODE, shape) :> IF y = end_year THEN w[i] ELSE 50) ]

\* n countries, country-major, latest year first
RawTable(n, w, shape) ==
    [k \in 1..(n * Len(ModelYears)) |->
        RawRow(((k - 1) \div Len(ModelYears)) + 1,
               ModelYears[((k - 1) % Len(ModelYears)) + 1], w, shape)]

Upstreams ==
    UNION { { RawTable(n, w, s) : w \in [1..n -> WaterVals], s \in Shapes }
            : n \in 1..MaxCountries }

-----------------------------------------------------------------------------
(* The cache file: raw_df.to_pickle / pd.read_pickle *)

EmptyBlob == [proto |-> "none", index |-> <<>>, blocks |-> <<>>, stop |-> FALSE]

NoFile == [exists |-> FALSE, blob |-> EmptyBlob]

Garbage == [exists |-> TRUE, blob |-> [EmptyBlob EXCEPT !.proto = "garbage"]]

\* to_pickle: the index and one block of values per column, closed by STOP
Serialize(raw) ==
    [ proto  |-> "pickle",
      index  |-> [k \in 1..Len(raw) |-> raw[k].key],
      blocks |-> [c \in DOMAIN raw[1].cells |-> [k \in 1..Len(raw) |-> raw[k].cells[c]]],
      stop   |-> TRUE ]

\* variant: the table is cached after the country index is flattened to names
ToPickleFlat(raw) ==
    [ exists |-> TRUE,
      blob   |-> Serialize([k \in 1..Len(raw) |->
                    [raw[k] EXCEPT !.key =
                        << [type |-> "str",
                            str  |-> IF raw[k].key[1].type = "dict"
                                     THEN raw[k].key[1].value ELSE raw[k].key[1].str],
                           raw[k].key[2] >>]]) ]

ToPickle(raw) == [exists |-> TRUE, blob |-> Serialize(raw)]

\* whether read_pickle returns instead of raising
CanUnpickle(file) == file.blob.proto = "pickle" /\ file.blob.stop

\* read_pickle: the rows rebuilt from the index and the column blocks
ReadPickle(file) ==
    [k \in 1..Len(file.blob.index) |->
        [ key   |-> file.blob.index[k],
          cells |-> [c \in DOMAIN file.blob.blocks |-> file.blob.blocks[c][k]] ]]

\* variant: a cache that differs from the API's table is refreshed
LoadRefreshStale(file, api, up) ==
    IF file.exists /\ ~(CanUnpickle(file) /\ up /\ ReadPickle(file) # api)
    THEN IF CanUnpickle(file)
         THEN [ok |-> TRUE, raw_df |-> ReadPickle(file), file |-> file, api |-> "no"]
         ELSE [ok |-> FALSE, raw_df |-> <<>>, file |-> file, api |-> "no"]
    ELSE IF up
         THEN [ok |-> TRUE, raw_df |-> api, file |-> ToPickle(api), api |-> "ok"]
         ELSE [ok |-> FALSE, raw_df |-> <<>>, file |-> file, api |-> "failed"]

\* variant: a cache that cannot be read is replaced by a fresh fetch
LoadRecover(file, api, up) ==
    IF file.exists /\ CanUnpickle(file)
    THEN [ok |-> TRUE, raw_df |-> ReadPickle(file), file |-> file, api |-> "no"]
    ELSE IF up
         THEN [ok |-> TRUE, raw_df |-> api, file |-> ToPickle(api), api |-> "ok"]
         ELSE [ok |-> FALSE, raw_df |-> <<>>, file |-> file, api |-> "failed"]

\* lines 224-230: the table, the file left behind, and the outcome of the API
\* call; up tells whether a call to the API answers
Load(file, api, up) ==
    IF file.exists
    THEN IF CanUnpickle(file)
         THEN [ok |-> TRUE, raw_df |-> ReadPickle(file), file |-> file, api |-> "no"]
         ELSE [ok |-> FALSE, raw_df |-> <<>>, file |-> file, api |-> "no"]
    ELSE IF up
         THEN [ok |-> TRUE, raw_df |-> api, file |-> ToPickle(api), api |-> "ok"]
         ELSE [ok |-> FALSE, raw_df |-> <<>>, file |-> file, api |-> "failed"]

\* the files a startup can find: none, an unreadable one, or an earlier run's pickle
CacheFiles == {NoFile, Garbage} \cup {ToPickle(t) : t \in Upstreams}

-----------------------------------------------------------------------------
(* Normalisation, lines 233-244 *)

NoTable == <<>>

ResetIndex(raw) ==
    [k \in 1..Len(raw) |-> [country |-> raw[k].key[1], date |-> raw[k].key[2]] @@ raw[k].cells]

IsDict(x) == x.type = "dict"

DigitValue(c) == (CHOOSE d \in 1..10 : DigitChars[d] = c) - 1

RECURSIVE ParseYear(_)
ParseYear(s) ==
    IF s = <<>> THEN 0
    ELSE 10 * ParseYear(SubSeq(s, 1, Len(s) - 1)) + DigitValue(s[Len(s)])

NewName(c) == IF c \in DOMAIN indicators THEN indicators[c] ELSE c

Rename(row) ==
    [n \in {NewName(c) : c \in DOMAIN row} |-> row[CHOOSE c \in DOMAIN row : NewName(c) = n]]

Normalize(raw) ==
    LET r == ResetIndex(raw)
        dict == IsDict(r[1].country)
        withCols ==
            [k \in 1..Len(r) |->
                [ iso2         |-> IF dict THEN r[k].country.id ELSE r[k].country.str,
                  country_name |-> IF dict THEN r[k].country.value ELSE r[k].country.str,
                  Year         |-> ParseYear(r[k].date) ] @@ r[k]]
    IN  [k \in 1..Len(withCols) |-> Rename(withCols[k])]

-----------------------------------------------------------------------------
(* update_figures, lines 267-308 *)

None == [points |-> <<>>, present |-> FALSE]

Payload(pts) == [points |-> pts, present |-> TRUE]

Point(cd) == [customdata |-> cd]

\* truth value of a clickData argument: None is false, an event dict is true
Truthy(click) == click.present

Codes(click) == [k \in 1..Len(click.points) |-> click.points[k].customdata[1]]

\* variant: the bar chart's payload is looked at first
SelectedBarFirst(cs, cb) ==
    IF Truthy(cb) THEN Codes(cb)
    ELSE IF Truthy(cs) THEN Codes(cs)
    ELSE <<>>

\* lines 269-273
Selected(cs, cb) ==
    IF Truthy(cs) THEN Codes(cs)
    ELSE IF Truthy(cb) THEN Codes(cb)
    ELSE <<>>

\* variant: the rows are matched on country_name
IsinByName(t, sel) == Take(t, {k \in 1..Len(t) : t[k].country_name \in Range(sel)})

\* dff[dff['iso2'].isin(selected)]
Isin(t, sel) == Take(t, {k \in 1..Len(t) : t[k].iso2 \in Range(sel)})

\* variant: the filter is applied to an empty selection too
UseFilterAlways(sel) == TRUE

\* line 274: truth value of the list
UseFilter(sel) == sel # <<>>

\* lines 268-275
Filtered(t, sel) == IF UseFilter(sel) THEN Isin(t, sel) ELSE t

\* lines 278-292
Scatter(t) ==
    [ points    |-> [k \in 1..Len(t) |->
                        [ x |-> t[k][GDP], y |-> t[k][LIFE], frame |-> t[k].Year,
                          color |-> t[k].country_name,
                          customdata |-> <<t[k].iso2, t[k].country_name>> ]],
      clickmode |-> "event+select" ]

\* sort_values(col, ascending=False): the missing values are split off and
\* appended in table order; the others are ordered by value, equal values in
\* the order this build's default sort kind leaves them
SortValuesDesc(t, col, tie) ==
    LET idx == 1..Len(t)
        nonNan == {i \in idx : t[i][col] # NaN}
        nanIdx == Ascending(idx \ nonNan)
        Before(i, j) ==
            \/ t[i][col] > t[j][col]
            \/ /\ t[i][col] = t[j][col]
               /\ IF tie = "kept" THEN i < j ELSE i > j
        Pos(i) == 1 + Cardinality({j \in nonNan : Before(j, i)})
        indexer ==
            [k \in idx |->
                IF k <= Cardinality(nonNan)
                THEN CHOOSE i \in nonNan : Pos(i) = k
                ELSE nanIdx[k - Cardinality(nonNan)]]
    IN  [k \in idx |-> t[indexer[k]]]

HeadRows(t, n) == SubSeq(t, 1, Min(n, Len(t)))

\* line 295
Latest(t) == Take(t, {k \in 1..Len(t) : t[k].Year = end_year})

\* lines 295-297
WaterDf(t, tie) == HeadRows(SortValuesDesc(Latest(t), WATER, tie), TopN)

\* lines 298-306
Bar(t, tie) ==
    LET w == WaterDf(t, tie)
    IN  [ points    |-> [k \in 1..Len(w) |->
                            [ x |-> w[k].country_name, y |-> w[k][WATER],
                              customdata |-> <<w[k].iso2, w[k].country_name>> ]],
          tickangle |-> -45,
          clickmode |-> "event+select" ]

\* variant: no copy, the filter result is bound to the module-level name
TableAfterCycleAliased(t, filtered) == filtered

\* line 268: the callback works on a copy, the module-level table stays
TableAfterCycle(t, filtered) == t

NoFig1 == [points |-> <<>>, clickmode |-> "none"]

NoFig2 == [points |-> <<>>, tickangle |-> 0, clickmode |-> "none"]

-----------------------------------------------------------------------------
(* What a user can click: the points a chart currently shows *)

\* the sub-lists of s with at most n elements, in the order of s
SubLists(s, n) == {Take(s, I) : I \in {J \in SUBSET (1..Len(s)) : Cardinality(J) <= n}}

\* the points of one animation frame of the scatter chart
FramePoints(fig, y) ==
    LET shown == Take(fig.points, {k \in 1..Len(fig.points) : fig.points[k].frame = y})
    IN  [k \in 1..Len(shown) |-> Point(shown[k].customdata)]

\* the bars drawn: a bar with a missing value has no area to click
BarPoints(fig) ==
    LET shown == Take(fig.points, {k \in 1..Len(fig.points) : fig.points[k].y # NaN})
    IN  [k \in 1..Len(shown) |-> Point(shown[k].customdata)]

ScatterClicks(fig) ==
    UNION {SubLists(FramePoints(fig, y), MaxPoints) : y \in {fig.points[k].frame : k \in 1..Len(fig.points)}}
        \cup {<<>>}

BarClicks(fig) == SubLists(BarPoints(fig), MaxPoints)

-----------------------------------------------------------------------------
(* State machine *)

PageReset ==
    /\ click_scatter' = None
    /\ click_bar' = None
    /\ lastTrigger' = "none"
    /\ selected' = <<>>
    /\ dff' = NoTable
    /\ fig1' = NoFig1
    /\ fig2' = NoFig2
    /\ initial' = <<NoFig1, NoFig2>>

InitCommon ==
    /\ upstream \in Upstreams
    /\ tieOrder \in {"kept", "reversed"}
    /\ pc = "down"
    /\ fetched = "no"
    /\ df = NoTable
    /\ coldDf = NoTable
    /\ click_scatter = None
    /\ click_bar = None
    /\ lastTrigger = "none"
    /\ selected = <<>>
    /\ dff = NoTable
    /\ fig1 = NoFig1
    /\ fig2 = NoFig2
    /\ initial = <<NoFig1, NoFig2>>

\* a first deployment: no cache file yet
Init == InitCommon /\ cache = NoFile

\* any deployment: the cache file may be left over from earlier runs
InitStartup == InitCommon /\ cache \in CacheFiles

\* the module's top level, lines 224-258; up: whether the API answers
Startup(up) ==
    LET r == Load(cache, upstream, up)
    IN  /\ pc = "down"
        /\ pc' = IF r.ok THEN "serving" ELSE "aborted"
        /\ cache' = r.file
        /\ fetched' = r.api
        /\ df' = IF r.ok THEN Normalize(r.raw_df) ELSE NoTable
        /\ coldDf' = IF r.ok /\ r.api = "ok" THEN df' ELSE coldDf
        /\ PageReset
        /\ UNCHANGED <<upstream, tieOrder>>

StartupWarm == cache.exists /\ CanUnpickle(cache) /\ \E up \in BOOLEAN : Startup(up)

StartupCorrupt == cache.exists /\ ~CanUnpickle(cache) /\ \E up \in BOOLEAN : Startup(up)

StartupCold == ~cache.exists /\ Startup(TRUE)

StartupFetchFail == ~cache.exists /\ Startup(FALSE)

\* the process ends (killed, or already dead after an aborted startup)
Stop ==
    /\ pc \in {"serving", "aborted"}
    /\ pc' = "down"
    /\ fetched' = "no"
    /\ df' = NoTable
    /\ PageReset
    /\ UNCHANGED <<upstream, cache, tieOrder, coldDf>>

\* one call of update_figures(cs, cb), lines 267-308
Cycle(cs, cb) ==
    LET sel == Selected(cs, cb)
        f == Filtered(df, sel)
    IN  /\ selected' = sel
        /\ dff' = f
        /\ fig1' = Scatter(f)
        /\ fig2' = Bar(f, tieOrder)
        /\ df' = TableAfterCycle(df, f)
        /\ UNCHANGED <<upstream, cache, tieOrder, pc, fetched, coldDf>>

\* a browser loads the page: both clickData are None
PageLoad ==
    /\ pc = "serving"
    /\ click_scatter' = None
    /\ click_bar' = None
    /\ lastTrigger' = "none"
    /\ Cycle(None, None)
    /\ initial' = <<fig1', fig2'>>

ClickScatter(pts) ==
    /\ pc = "serving"
    /\ fig1 # NoFig1
    /\ click_scatter' = Payload(pts)
    /\ click_bar' = click_bar
    /\ lastTrigger' = "scatter"
    /\ Cycle(Payload(pts), click_bar)
    /\ UNCHANGED initial

ClickBar(pts) ==
    /\ pc = "serving"
    /\ fig2 # NoFig2
    /\ click_bar' = Payload(pts)
    /\ click_scatter' = click_scatter
    /\ lastTrigger' = "bar"
    /\ Cycle(click_scatter, Payload(pts))
    /\ UNCHANGED initial

UpdateCycle ==
    \/ PageLoad
    \/ \E pts \in ScatterClicks(fig1) : ClickScatter(pts)
    \/ \E pts \in BarClicks(fig2) : ClickBar(pts)

(* Environment *)

EnvFrame ==
    UNCHANGED <<tieOrder, pc, fetched, df, click_scatter, click_bar, lastTrigger,
                selected, dff, fig1, fig2, initial>>

RemoveCache ==
    /\ cache.exists
    /\ cache' = NoFile
    /\ coldDf' = NoTable
    /\ EnvFrame
    /\ UNCHANGED upstream

CorruptCache ==
    /\ cache.exists
    /\ cache # Garbage
    /\ cache' = Garbage
    /\ coldDf' = NoTable
    /\ EnvFrame
    /\ UNCHANGED upstream

\* the API is read by the startup alone (line 229), so its changes are taken
\* between runs
UpstreamChange ==
    /\ pc # "serving"
    /\ upstream' \in Upstreams \ {upstream}
    /\ EnvFrame
    /\ UNCHANGED <<cache, coldDf>>

Next ==
    \/ StartupWarm
    \/ StartupCorrupt
    \/ StartupCold
    \/ StartupFetchFail
    \/ Stop
    \/ PageLoad
    \/ \E pts \in ScatterClicks(fig1) : ClickScatter(pts)
    \/ \E pts \in BarClicks(fig2) : ClickBar(pts)
    \/ RemoveCache
    \/ CorruptCache

Spec == Init /\ [][Next]_vars

NextStartup ==
    \/ StartupWarm
    \/ StartupCorrupt
    \/ StartupCold
    \/ StartupFetchFail
    \/ Stop
    \/ PageLoad
    \/ RemoveCache
    \/ CorruptCache
    \/ UpstreamChange

SpecStartup == InitStartup /\ [][NextStartup]_vars

-----------------------------------------------------------------------------
(* Properties *)

Rendered == pc = "serving" /\ fig1 # NoFig1

PointCodes(click) == [k \in 1..Len(click.points) |-> click.points[k].customdata[1]]

StartupStep == pc = "down" /\ pc' # "down"

\* C1: after any sequence of clicks on data points the selection of the
\* render is the country codes of the most recent click event, the one of
\* the chart that triggered the cycle; so a bar click that follows a scatter
\* click selects the bar click's countries.
C1_SelectionIsMostRecentClick ==
    (/\ Rendered
     /\ lastTrigger # "none"
     /\ click_scatter.present => click_scatter.points # <<>>
     /\ click_bar.present => click_bar.points # <<>>) =>
        selected = PointCodes(IF lastTrigger = "scatter" THEN click_scatter ELSE click_bar)

\* C2: in one cycle exactly one payload gives the selection: the scatter
\* payload when both carry data, the only one present otherwise, and the
\* selection is empty when both are absent.
C2_ScatterPayloadHasPriority ==
    Rendered =>
        /\ (click_scatter.present /\ click_bar.present) => selected = PointCodes(click_scatter)
        /\ (click_scatter.present /\ ~click_bar.present) => selected = PointCodes(click_scatter)
        /\ (~click_scatter.present /\ click_bar.present) => selected = PointCodes(click_bar)
        /\ (~click_scatter.present /\ ~click_bar.present) => selected = <<>>

C2_Witness ==
    /\ Rendered
    /\ click_scatter.present /\ click_bar.present
    /\ click_scatter.points # <<>> /\ click_bar.points # <<>>
    /\ PointCodes(click_scatter) # PointCodes(click_bar)

\* C3: for a non-empty selection S the table rendered from holds exactly the
\* rows of df whose iso2 is in S, in df's order; and when S is every code of
\* df the filtered table is df.
C3_FilterKeepsExactlySelected ==
    (Rendered /\ selected # <<>>) =>
        LET S == Range(selected)
            keep == {k \in 1..Len(df) : df[k].iso2 \in S}
            Nth(i) == CHOOSE k \in keep : Cardinality({j \in keep : j <= k}) = i
        IN  /\ \A k \in 1..Len(dff) : dff[k].iso2 \in S
            /\ Len(dff) = Cardinality(keep)
            /\ \A i \in 1..Len(dff) : dff[i] = df[Nth(i)]
            /\ (S = {df[k].iso2 : k \in 1..Len(df)}) => dff = df

C3_Witness ==
    /\ Rendered
    /\ selected # <<>>
    /\ 0 < Len(dff) /\ Len(dff) < Len(df)
    /\ df[1].iso2 # df[1].country_name

\* C4: when the selection of a cycle is empty, both charts are rendered from
\* the whole table and equal the figures of the initial render.
C4_EmptySelectionRendersAll ==
    (Rendered /\ selected = <<>>) => (dff = df /\ <<fig1, fig2>> = initial)

C4_Witness ==
    /\ Rendered
    /\ lastTrigger = "scatter"
    /\ click_scatter.present /\ click_scatter.points = <<>>
    /\ click_bar.present /\ click_bar.points # <<>>
    /\ selected = <<>>

\* C5: the bar chart has exactly min(15, N) rows, N the number of rows of the
\* filtered table of year end_year with a water-access value, in
\* non-increasing order of the value, and none of them lacks the value.
C5_BarRowsAreValuedTopN ==
    Rendered =>
        LET pts == fig2.points
            N == Cardinality({k \in 1..Len(dff) :
                                dff[k].Year = end_year /\ dff[k][WATER] # NaN})
        IN  /\ Len(pts) = Min(TopN, N)
            /\ \A k \in 1..(Len(pts) - 1) : pts[k].y >= pts[k + 1].y
            /\ \A k \in 1..Len(pts) : pts[k].y # NaN

\* C6: bars of equal water-access value keep the relative order their rows
\* have in the table.
C6_TiesKeepTableOrder ==
    Rendered =>
        LET pts == fig2.points
            RowOf(p) == CHOOSE k \in 1..Len(df) :
                            df[k].iso2 = p.customdata[1] /\ df[k].Year = end_year
        IN  \A i, j \in 1..Len(pts) :
                (i < j /\ pts[i].y = pts[j].y) => RowOf(pts[i]) < RowOf(pts[j])

\* C7: a warm start from the cache a cold start wrote yields the normalised
\* table that cold start yielded.
C7_WarmEqualsCold ==
    (pc = "serving" /\ fetched = "no" /\ coldDf # NoTable) => df = coldDf

C7_Witness ==
    /\ pc = "serving"
    /\ fetched = "no"
    /\ coldDf # NoTable
    /\ df[1].iso2 # df[1].country_name

\* C8: a startup that finds the cache file calls no API and leaves the file
\* as it is; only a startup that finds no file calls the API, and it writes
\* the fetched table unchanged; once a fetch has filled the cache, no later
\* startup fetches and the file keeps its content until it is removed.
C8_CacheIsNeverRefreshed ==
    [][ /\ StartupStep =>
            /\ cache.exists => (fetched' = "no" /\ cache' = cache)
            /\ fetched' # "no" => ~cache.exists
            /\ fetched' = "ok" =>
                    (cache'.exists /\ CanUnpickle(cache') /\ ReadPickle(cache') = upstream)
            /\ coldDf # NoTable => (fetched' = "no" /\ cache' = cache)
        /\ (coldDf # NoTable /\ coldDf' # NoTable) => cache' = cache
        /\ ~StartupStep => (fetched' # "no" => fetched' = fetched)
      ]_vars

C8_Witness ==
    /\ pc = "serving"
    /\ fetched = "no"
    /\ coldDf # NoTable
    /\ ReadPickle(cache) # upstream

\* C9: a failed fetch with no cache file aborts the startup with no table and
\* no cache file; an unreadable cache file aborts the startup with no API
\* call and the file untouched; an aborted process never serves a page.
C9_StartupFailuresAreFatal ==
    [][ /\ (StartupStep /\ fetched' = "failed") =>
                (pc' = "aborted" /\ df' = NoTable /\ ~cache.exists /\ ~cache'.exists)
        /\ (StartupStep /\ cache.exists /\ ~CanUnpickle(cache)) =>
                (pc' = "aborted" /\ df' = NoTable /\ fetched' = "no" /\ cache' = cache)
        /\ pc' = "aborted" => (df' = NoTable /\ fig1' = NoFig1 /\ fig2' = NoFig2)
      ]_vars

C9_Witness == pc = "aborted" /\ cache = Garbage /\ fetched = "no"

PageVars == <<click_scatter, click_bar, lastTrigger, selected, dff, fig1, fig2, initial>>

\* a step of the serving process that re-renders: an update cycle
CycleStep == pc = "serving" /\ pc' = "serving" /\ PageVars' # PageVars

\* C10: no update cycle changes df or the cache file, a pickle reaches the
\* cache file only in a startup, and the figures are those computed from df
\* and the two current payloads.
C10_CyclesLeaveTableAndCache ==
    /\ [](Rendered =>
            /\ fig1 = Scatter(Filtered(df, Selected(click_scatter, click_bar)))
            /\ fig2 = Bar(Filtered(df, Selected(click_scatter, click_bar)), tieOrder))
    /\ [][ /\ (pc = "serving" /\ pc' = "serving") => df' = df
           /\ CycleStep => cache' = cache
           /\ (cache' # cache /\ CanUnpickle(cache')) => StartupStep
         ]_vars

C10_Witness ==
    /\ Rendered
    /\ selected # <<>>
    /\ Len(dff) < Len(df)
    /\ cache.exists
    /\ df = Normalize(ReadPickle(cache))

====
